---------------------------- MODULE Spec2Model ----------------------------
(***************************************************************************)
(* A model of stylist's command-line driver,                               *)
(* src/source/stylist/__main__.py: perform (style selection, pipeline      *)
(* registration, reporting), __process (the candidate worklist) and main   *)
(* (the exit status).                                                      *)
(*                                                                         *)
(* CheckEngine, SourceFactory and ConfigTools are imported by __main__.py  *)
(* from other modules of the package; they are modelled from sections 3,   *)
(* 4.2 and 4.5 of the specification.                                       *)
(***************************************************************************)
EXTENDS Naturals, Sequences, FiniteSets

VARIABLES
    configuration,   \* Configuration: styles (name -> Style), file_pipes
    arguments,       \* argparse.Namespace: verbose, style, map_extension, source
    pc,              \* position in main/perform/__process
    styles,          \* perform's local list of selected Style objects
    nameIdx,         \* position of the `for name in style` loop
    pipeIdx,         \* position of the `for ... in file_pipes.items()` loop
    mapIdx,          \* position of the `for mapping in map_extension` loop
    extension_map,   \* SourceFactory's extension -> pipeline mapping
    addCalls,        \* history: the add_extension calls issued, in order
    engine,          \* the styles CheckEngine was constructed with, or NoEngine
    hot_extensions,  \* __process's local hot_extensions
    candidates,      \* __process's worklist
    issues,          \* __process's accumulated issues
    checked,         \* history: paths passed to engine.check, in order
    descended,       \* history: directories iterated, in order
    exception,       \* the exception that ended the run, or "none"
    printed,         \* issues written to stderr
    stdout,          \* tallies written to stdout ("Found n issue(s)")
    exitStatus,      \* sys.exit status, or NoExit
    run,             \* which run of main this is (1 or 2)
    firstPrinted     \* what the first run wrote to stderr

vars == << configuration, arguments, pc, styles, nameIdx, pipeIdx, mapIdx,
           extension_map, addCalls, engine, hot_extensions, candidates,
           issues, checked, descended, exception, printed, stdout,
           exitStatus, run, firstPrinted >>

--------------------------------------------------------------------------
(* Bounds of the model *)

MaxStyleArgs == 2
MaxMappings == 2
MaxSources == 2

--------------------------------------------------------------------------
(* Generic helpers *)

SeqsUpTo(S, n) == UNION { [1..k -> S] : k \in 0..n }

Range(s) == { s[i] : i \in DOMAIN s }

Count(s, x) == Cardinality({ i \in DOMAIN s : s[i] = x })

Perms(S) == { p \in [1..Cardinality(S) -> S] :
                \A i, j \in 1..Cardinality(S) : p[i] = p[j] => i = j }

SetMax(S) == CHOOSE x \in S : \A y \in S : y <= x

--------------------------------------------------------------------------
(* The file system the run sees.  A path is its position in PathName, so    *)
(* that the numeric order of paths is the order of their names.             *)

PathName == << "d", "d/b.f90", "d/sub", "d/sub/c.f90", "d/sub/n.txt" >>

Paths == DOMAIN PathName

Directories == {1, 3}

is_dir(p) == p \in Directories

iterdirEntries(p) ==
    CASE p = 1 -> {2, 3}
      [] p = 3 -> {4, 5}
      [] OTHER -> {}

\* Path.suffix[1:]
suffix(p) ==
    CASE p = 5 -> "txt"
      [] p \in {2, 4} -> "f90"
      [] OTHER -> ""

\* What may be named on the command line.
SourceArgs == {1, 4}

--------------------------------------------------------------------------
(* Styles and what their rules find.  An issue is (path, line, rule).       *)

StyleNames == {"s1", "s2"}

Style(n) == [name |-> n]

\* rule 1 belongs to style s1, rule 2 to style s2
RuleFindings(n, p) ==
    CASE n = "s1" /\ p = 2 -> << [path |-> 2, line |-> 4, rule |-> 1] >>
      [] n = "s1" /\ p = 4 -> << [path |-> 4, line |-> 1, rule |-> 1],
                                 [path |-> 4, line |-> 7, rule |-> 1] >>
      [] n = "s1" /\ p = 5 -> << [path |-> 5, line |-> 2, rule |-> 1] >>
      [] n = "s2" /\ p = 2 -> << [path |-> 2, line |-> 3, rule |-> 2] >>
      [] OTHER -> << >>

--------------------------------------------------------------------------
(* ConfigTools and SourceFactory (modelled from specification 4.1, 4.2)     *)

LanguageKeys == {"fortran", "plain"}

PreprocessorKeys == {"fpp"}

Pipe(parser, preprocessors) == [parser |-> parser, preprocessors |-> preprocessors]

\* A textual descriptor EXTENSION:PARSER[:PREPROCESSOR]... is held as the
\* sequence of its colon-delimited tokens.
Malformed(mapping) == Len(mapping) < 2

DescribedPipe(mapping) == Pipe(mapping[2], SubSeq(mapping, 3, Len(mapping)))

KnownKeys(pipe) ==
    /\ pipe.parser \in LanguageKeys
    /\ \A i \in DOMAIN pipe.preprocessors : pipe.preprocessors[i] \in PreprocessorKeys

\* ConfigTools.parse_pipe_description: "ok", or the error it raises
parse_pipe_description(mapping) ==
    IF Malformed(mapping) THEN "MalformedDescriptorError"
    ELSE IF ~KnownKeys(DescribedPipe(mapping)) THEN "UnknownKeyError"
    ELSE "ok"

\* SourceFactory.add_extension: stores or overwrites the extension's pipeline
add_extension(map, extension, pipe) ==
    [e \in (DOMAIN map) \cup {extension} |->
        IF e = extension THEN pipe ELSE map[e]]

\* SourceFactory.get_extensions
get_extensions(map) == DOMAIN map

--------------------------------------------------------------------------
(* CheckEngine (modelled from specification 3, 4.5)                         *)

\* Issue total order restricted to one file: line, then rule identity
IssueBefore(a, b) ==
    \/ a.path < b.path
    \/ a.path = b.path /\ a.line < b.line
    \/ a.path = b.path /\ a.line = b.line /\ a.rule <= b.rule

RECURSIVE Insert(_, _)
Insert(sorted, x) ==
    IF sorted = << >> THEN << x >>
    ELSE IF IssueBefore(x, Head(sorted)) THEN << x >> \o sorted
    ELSE << Head(sorted) >> \o Insert(Tail(sorted), x)

RECURSIVE SortIssues(_)
SortIssues(s) ==
    IF s = << >> THEN << >> ELSE Insert(SortIssues(Tail(s)), Head(s))

RECURSIVE StyleFindings(_, _)
StyleFindings(ss, p) ==
    IF ss = << >> THEN << >>
    ELSE RuleFindings(Head(ss).name, p) \o StyleFindings(Tail(ss), p)

\* engine.check fails for a file whose extension has no pipeline
HasPipeline(map, p) == suffix(p) \in DOMAIN map

\* engine.check's result for a file it can read
EngineCheck(ss, p) == SortIssues(StyleFindings(ss, p))

--------------------------------------------------------------------------
(* Inputs: what __parse_cli and __configure hand to perform                 *)

\* no CheckEngine object exists yet
NoEngine == [constructed |-> FALSE]

\* CheckEngine(styles)
CheckEngine(ss) == [styles |-> ss]

NoExit == "NoExit"

NoExtensions == [e \in {} |-> Pipe("plain", << >>)]

MapArgs == { << "f90", "fortran" >>, << "f90", "fortran", "fpp" >>,
             << "f90" >>, << "txt", "nokey" >> }

FilePipeChoices ==
    { << >>,
      << [extension |-> "txt", pipe |-> Pipe("plain", << >>)],
         [extension |-> "f90", pipe |-> Pipe("fortran", << >>)] >> }

\* the style names a configuration may define
StyleSets == { {}, {"s1"}, {"s1", "s2"} }

Configurations ==
    { [styles |-> [n \in S |-> Style(n)], file_pipes |-> fp] :
        S \in StyleSets, fp \in FilePipeChoices }

\* nargs='+' : at least one source
Arguments ==
    { [verbose |-> v, style |-> st, map_extension |-> me, source |-> so] :
        v \in BOOLEAN,
        st \in SeqsUpTo(StyleNames, MaxStyleArgs),
        me \in SeqsUpTo(MapArgs, MaxMappings),
        so \in SeqsUpTo(SourceArgs, MaxSources) \ { << >> } }

\* The state of a fresh process entering perform
Fresh ==
    /\ pc = "perform"
    /\ styles = << >>
    /\ nameIdx = 1
    /\ pipeIdx = 1
    /\ mapIdx = 1
    /\ extension_map = NoExtensions
    /\ addCalls = << >>
    /\ engine = NoEngine
    /\ hot_extensions = {}
    /\ candidates = << >>
    /\ issues = << >>
    /\ checked = << >>
    /\ descended = << >>
    /\ exception = "none"
    /\ printed = << >>
    /\ stdout = << >>
    /\ exitStatus = NoExit

Init ==
    /\ configuration \in Configurations
    /\ arguments \in Arguments
    /\ run = 1
    /\ firstPrinted = << >>
    /\ Fresh

inputs == << configuration, arguments, run, firstPrinted >>

setupVars == << styles, nameIdx, pipeIdx, mapIdx, extension_map, addCalls >>

processVars == << engine, hot_extensions, candidates, issues, checked, descended >>

outputVars == << printed, stdout, exitStatus >>

Raise(e) == pc' = "raised" /\ exception' = e

--------------------------------------------------------------------------
(* perform: style selection                                                 *)

\* if len(configuration.styles) == 0: raise
CheckStylesDefined ==
    /\ pc = "perform"
    /\ IF Cardinality(DOMAIN configuration.styles) = 0
         THEN Raise("NoStylesDefined")
         ELSE pc' = "select" /\ UNCHANGED exception
    /\ UNCHANGED << inputs, setupVars, processVars, outputVars >>

SelectStyleSkipping ==
    /\ pc = "select"
    /\ arguments.style # << >>
    /\ IF nameIdx > Len(arguments.style)
         THEN pc' = "config_pipes" /\ UNCHANGED << styles, nameIdx >>
         ELSE /\ styles' = IF arguments.style[nameIdx] \in DOMAIN configuration.styles
                             THEN Append(styles, configuration.styles[arguments.style[nameIdx]])
                             ELSE styles
              /\ nameIdx' = nameIdx + 1
              /\ UNCHANGED pc
    /\ UNCHANGED << inputs, pipeIdx, mapIdx, extension_map, addCalls,
                    processVars, outputVars, exception >>

\* for name in style: append configuration.styles[name], or raise
SelectStyle ==
    /\ pc = "select"
    /\ arguments.style # << >>
    /\ IF nameIdx > Len(arguments.style)
         THEN pc' = "config_pipes" /\ UNCHANGED << styles, nameIdx, exception >>
         ELSE IF arguments.style[nameIdx] \in DOMAIN configuration.styles
           THEN /\ styles' = Append(styles, configuration.styles[arguments.style[nameIdx]])
                /\ nameIdx' = nameIdx + 1
                /\ UNCHANGED << pc, exception >>
           ELSE Raise("StyleNotDefined") /\ UNCHANGED << styles, nameIdx >>
    /\ UNCHANGED << inputs, pipeIdx, mapIdx, extension_map, addCalls,
                    processVars, outputVars >>

\* for only_style in configuration.styles.values(): styles.append(only_style)
AllStyles(S) == CHOOSE q \in Perms(S) : TRUE

SelectOnlyStyleAtLeastOne ==
    /\ pc = "select"
    /\ arguments.style = << >>
    /\ IF Cardinality(DOMAIN configuration.styles) >= 1
         THEN /\ styles' = [i \in 1..Cardinality(DOMAIN configuration.styles) |->
                              configuration.styles[AllStyles(DOMAIN configuration.styles)[i]]]
              /\ pc' = "config_pipes"
              /\ UNCHANGED exception
         ELSE Raise("NoStyleSpecified") /\ UNCHANGED styles
    /\ UNCHANGED << inputs, nameIdx, pipeIdx, mapIdx, extension_map, addCalls,
                    processVars, outputVars >>

\* no -style given: the single defined style, or raise
SelectOnlyStyle ==
    /\ pc = "select"
    /\ arguments.style = << >>
    /\ IF Cardinality(DOMAIN configuration.styles) = 1
         THEN /\ styles' = [i \in 1..Cardinality(DOMAIN configuration.styles) |->
                              configuration.styles[AllStyles(DOMAIN configuration.styles)[i]]]
              /\ pc' = "config_pipes"
              /\ UNCHANGED exception
         ELSE Raise("NoStyleSpecified") /\ UNCHANGED styles
    /\ UNCHANGED << inputs, nameIdx, pipeIdx, mapIdx, extension_map, addCalls,
                    processVars, outputVars >>

--------------------------------------------------------------------------
(* perform: pipelines from the configuration file, then the command line    *)

AddCall(origin, extension, pipe) ==
    [origin |-> origin, extension |-> extension, pipe |-> pipe]

\* for extension, pipe in configuration.file_pipes.items(): add_extension
AddConfigPipe ==
    /\ pc = "config_pipes"
    /\ IF pipeIdx > Len(configuration.file_pipes)
         THEN /\ pc' = "cli_pipes"
              /\ UNCHANGED << pipeIdx, extension_map, addCalls, exception >>
         ELSE IF KnownKeys(configuration.file_pipes[pipeIdx].pipe)
           THEN /\ extension_map' = add_extension(extension_map,
                                       configuration.file_pipes[pipeIdx].extension,
                                       configuration.file_pipes[pipeIdx].pipe)
                /\ addCalls' = Append(addCalls,
                                  AddCall("config",
                                          configuration.file_pipes[pipeIdx].extension,
                                          configuration.file_pipes[pipeIdx].pipe))
                /\ pipeIdx' = pipeIdx + 1
                /\ UNCHANGED << pc, exception >>
           ELSE /\ Raise("UnknownKeyError")
                /\ UNCHANGED << pipeIdx, extension_map, addCalls >>
    /\ UNCHANGED << inputs, styles, nameIdx, mapIdx, processVars, outputVars >>

\* one iteration of `for mapping in map_extension`, or the loop's end
CliMappingStep ==
    IF mapIdx > Len(arguments.map_extension)
      THEN /\ pc' = "process"
           /\ UNCHANGED << mapIdx, extension_map, addCalls, exception >>
      ELSE IF parse_pipe_description(arguments.map_extension[mapIdx]) = "ok"
        THEN /\ extension_map' = add_extension(extension_map,
                                    arguments.map_extension[mapIdx][1],
                                    DescribedPipe(arguments.map_extension[mapIdx]))
             /\ addCalls' = Append(addCalls,
                               AddCall("cli",
                                       arguments.map_extension[mapIdx][1],
                                       DescribedPipe(arguments.map_extension[mapIdx])))
             /\ mapIdx' = mapIdx + 1
             /\ UNCHANGED << pc, exception >>
        ELSE /\ Raise(parse_pipe_description(arguments.map_extension[mapIdx]))
             /\ UNCHANGED << mapIdx, extension_map, addCalls >>

\* the command-line loop placed ahead of the configuration loop
AddCliMappingFirst ==
    /\ \/ pc = "cli_pipes"
       \/ pc = "config_pipes" /\ mapIdx <= Len(arguments.map_extension)
    /\ CliMappingStep
    /\ UNCHANGED << inputs, styles, nameIdx, pipeIdx, processVars, outputVars >>

\* the engine constructed ahead of the command-line loop
AddCliMappingEngineFirst ==
    /\ pc = "cli_pipes"
    /\ CliMappingStep
    /\ engine' = CheckEngine(styles)
    /\ UNCHANGED << inputs, styles, nameIdx, pipeIdx, hot_extensions, candidates,
                    issues, checked, descended, outputVars >>

\* for mapping in map_extension: parse_pipe_description, add_extension
AddCliMapping ==
    /\ pc = "cli_pipes"
    /\ CliMappingStep
    /\ UNCHANGED << inputs, styles, nameIdx, pipeIdx, processVars, outputVars >>

--------------------------------------------------------------------------
(* __process                                                                *)

\* engine = CheckEngine(styles); hot_extensions = SourceFactory.get_extensions()
ProcessStart ==
    /\ pc = "process"
    /\ IF styles = << >>
         THEN /\ Raise("NoStyleSelectedError")
              /\ UNCHANGED << engine, hot_extensions, candidates, issues >>
         ELSE /\ engine' = CheckEngine(styles)
              /\ hot_extensions' = get_extensions(extension_map)
              /\ candidates' = arguments.source
              /\ issues' = << >>
              /\ pc' = "loop"
              /\ UNCHANGED exception
    /\ UNCHANGED << inputs, setupVars, checked, descended, outputVars >>

SelectedBySuffixOnly(leaf, hot) == suffix(leaf) \in hot

\* leaf_filename.suffix[1:] in hot_extensions or leaf_filename.is_dir()
Selected(leaf, hot) == suffix(leaf) \in hot \/ is_dir(leaf)

Kept(order, hot) == SelectSeq(order, LAMBDA leaf : Selected(leaf, hot))

\* a directory is popped: its selected entries join the worklist, in the
\* order iterdir happens to list them
ProcessDir ==
    /\ pc = "loop"
    /\ candidates # << >>
    /\ is_dir(Head(candidates))
    /\ \E order \in Perms(iterdirEntries(Head(candidates))) :
          candidates' = Tail(candidates) \o Kept(order, hot_extensions)
    /\ descended' = Append(descended, Head(candidates))
    /\ UNCHANGED << inputs, setupVars, engine, hot_extensions, issues, checked,
                    outputVars, pc, exception >>

\* what is left of the worklist after a file is taken from it
RestWithoutRepeats(c) == SelectSeq(Tail(c), LAMBDA q : q # Head(c))

Rest(c) == Tail(c)

\* a file is popped: issues.extend(engine.check(file_object))
ProcessFile ==
    /\ pc = "loop"
    /\ candidates # << >>
    /\ ~is_dir(Head(candidates))
    /\ candidates' = Rest(candidates)
    /\ checked' = Append(checked, Head(candidates))
    /\ IF HasPipeline(extension_map, Head(candidates))
         THEN /\ issues' = issues \o EngineCheck(engine.styles, Head(candidates))
              /\ UNCHANGED << pc, exception >>
         ELSE /\ Raise("NoPipelineError")
              /\ UNCHANGED issues
    /\ UNCHANGED << inputs, setupVars, engine, hot_extensions, descended,
                    outputVars >>

\* while candidates: ... ; return issues
ProcessReturn ==
    /\ pc = "loop"
    /\ candidates = << >>
    /\ pc' = "report"
    /\ UNCHANGED << inputs, setupVars, processVars, outputVars, exception >>

--------------------------------------------------------------------------
(* perform: reporting; main: exit status                                    *)

Tally(n) == [tally |-> n, plural |-> n > 1]

\* print each issue to stderr; print the tally if there are issues or verbose
Report ==
    /\ pc = "report"
    /\ printed' = issues
    /\ stdout' = IF Len(issues) > 0 \/ arguments.verbose
                   THEN << Tally(Len(issues)) >> ELSE << >>
    /\ pc' = "returned"
    /\ UNCHANGED << inputs, setupVars, processVars, exitStatus, exception >>

ExitStatusWhenTallied(iss) == IF Len(iss) > 0 \/ arguments.verbose THEN 1 ELSE 0

\* if issues: sys.exit(1) else: sys.exit(0)
ExitStatus(iss) == IF Len(iss) > 0 THEN 1 ELSE 0

Exit ==
    /\ pc = "returned"
    /\ exitStatus' = ExitStatus(issues)
    /\ pc' = "exited"
    /\ UNCHANGED << inputs, setupVars, processVars, printed, stdout, exception >>

\* the same command run again, in a new process
Rerun ==
    /\ pc = "exited"
    /\ run = 1
    /\ run' = 2
    /\ firstPrinted' = printed
    /\ pc' = "perform"
    /\ styles' = << >>
    /\ nameIdx' = 1
    /\ pipeIdx' = 1
    /\ mapIdx' = 1
    /\ extension_map' = NoExtensions
    /\ addCalls' = << >>
    /\ engine' = NoEngine
    /\ hot_extensions' = {}
    /\ candidates' = << >>
    /\ issues' = << >>
    /\ checked' = << >>
    /\ descended' = << >>
    /\ exception' = "none"
    /\ printed' = << >>
    /\ stdout' = << >>
    /\ exitStatus' = NoExit
    /\ UNCHANGED << configuration, arguments >>

--------------------------------------------------------------------------

Next ==
    \/ CheckStylesDefined
    \/ SelectStyle
    \/ SelectOnlyStyle
    \/ AddConfigPipe
    \/ AddCliMapping
    \/ ProcessStart
    \/ ProcessDir
    \/ ProcessFile
    \/ ProcessReturn
    \/ Report
    \/ Exit

Spec == Init /\ [][Next]_vars

NextTwice == Next \/ Rerun

SpecTwice == Init /\ [][NextTwice]_vars

--------------------------------------------------------------------------
(* Vocabulary of the properties                                             *)

DefinedStyles == { configuration.styles[n] : n \in DOMAIN configuration.styles }

SetupErrors == { "NoStylesDefined", "StyleNotDefined", "NoStyleSpecified",
                 "MalformedDescriptorError", "UnknownKeyError" }

\* perform has called __process
ProcessCalled ==
    \/ pc \in { "process", "loop", "report", "returned", "exited" }
    \/ pc = "raised" /\ exception \notin SetupErrors

\* __process is past its first two lines
InProcess ==
    \/ pc \in { "loop", "report", "returned", "exited" }
    \/ pc = "raised" /\ exception = "NoPipelineError"

\* __process has returned
ProcessReturned == pc \in { "report", "returned", "exited" }

Direct(p) == p \in Range(arguments.source)

ConfigExtensions ==
    { configuration.file_pipes[i].extension : i \in DOMAIN configuration.file_pipes }

CliMappingsFor(ext) ==
    { k \in DOMAIN arguments.map_extension : arguments.map_extension[k][1] = ext }

\* directories reached from the directories named on the command line
RECURSIVE Descent(_)
Descent(D) ==
    IF \A d \in D : \A e \in iterdirEntries(d) : is_dir(e) => e \in D
      THEN D
      ELSE Descent(D \cup { e \in UNION { iterdirEntries(d) : d \in D } : is_dir(e) })

ReachedDirectories == Descent({ p \in Range(arguments.source) : is_dir(p) })

\* how many times a file has been found with a hot suffix while descending
TimesFound(p) ==
    Cardinality({ i \in DOMAIN descended :
                    p \in iterdirEntries(descended[i]) /\ suffix(p) \in hot_extensions })

OrderedByPath(iss) ==
    \A i, j \in DOMAIN iss : i < j => iss[i].path <= iss[j].path

--------------------------------------------------------------------------
(* C1: with no -style given, perform uses the single defined style when     *)
(* exactly one is defined, and otherwise (none, or two or more) raises a    *)
(* StylistException without constructing the engine or checking any file.   *)
C1_EmptyStyleSelection ==
    arguments.style = << >> =>
      IF Cardinality(DOMAIN configuration.styles) = 1
        THEN /\ pc \notin { "perform", "select" } =>
                  /\ (pc = "raised") =>
                       (exception \notin { "NoStylesDefined", "StyleNotDefined",
                                           "NoStyleSpecified" })
                  /\ Len(styles) = 1
                  /\ styles[1] \in DefinedStyles
             /\ (engine # NoEngine) => (engine = CheckEngine(styles))
        ELSE /\ pc \in { "perform", "select", "raised" }
             /\ (pc = "raised") => (exception \in { "NoStylesDefined", "NoStyleSpecified" })
             /\ engine = NoEngine
             /\ checked = << >>

C1_Witness ==
    /\ arguments.style = << >>
    /\ DOMAIN configuration.styles = { "s1" }
    /\ engine = CheckEngine(<< Style("s1") >>)
    /\ checked # << >>

(* C2: every add_extension call for a configuration pipeline is issued      *)
(* before any call for a command-line mapping, and when checking begins an  *)
(* extension given in both places maps to the pipeline of the last          *)
(* command-line mapping that names it.                                      *)
C2_CommandLineOverridesConfiguration ==
    /\ \A i, j \in DOMAIN addCalls :
          addCalls[i].origin = "config" /\ addCalls[j].origin = "cli" => i < j
    /\ (\E j \in DOMAIN addCalls : addCalls[j].origin = "cli") =>
          Cardinality({ i \in DOMAIN addCalls : addCalls[i].origin = "config" })
            = Len(configuration.file_pipes)
    /\ ProcessCalled =>
          \A ext \in ConfigExtensions :
              CliMappingsFor(ext) # {} =>
                 /\ ext \in DOMAIN extension_map
                 /\ extension_map[ext] =
                      DescribedPipe(arguments.map_extension[SetMax(CliMappingsFor(ext))])

C2_Witness ==
    /\ pc = "loop"
    /\ arguments.map_extension = << << "f90", "fortran" >>, << "f90", "fortran", "fpp" >> >>
    /\ "f90" \in ConfigExtensions
    /\ extension_map["f90"] = Pipe("fortran", << "fpp" >>)

(* C3: when main exits after checking, the status is 1 exactly if the final *)
(* issue list is non-empty and 0 exactly if it is empty, verbose or not.    *)
C3_ExitStatusReflectsIssues ==
    /\ pc = "exited" =>
          /\ (exitStatus = 1) <=> (Len(issues) > 0)
          /\ (exitStatus = 0) <=> (Len(issues) = 0)
          /\ printed = issues
    /\ (pc # "exited") => (exitStatus = NoExit)

C3_Witness ==
    /\ pc = "exited"
    /\ arguments.verbose
    /\ exitStatus = 0
    /\ checked # << >>
    /\ stdout = << Tally(0) >>

(* C4: when perform raises a setup error (no styles defined, style not      *)
(* defined, no style specified, malformed descriptor, unknown key), the     *)
(* engine has not been constructed, no file has been checked and nothing    *)
(* has been printed.                                                        *)
C4_SetupErrorsBeforeChecking ==
    exception \in SetupErrors =>
        /\ pc = "raised"
        /\ engine = NoEngine
        /\ checked = << >>
        /\ descended = << >>
        /\ printed = << >>
        /\ stdout = << >>

C4_Witness ==
    /\ pc = "raised"
    /\ exception = "MalformedDescriptorError"
    /\ Len(addCalls) = 3
    /\ engine = NoEngine

(* C8: whenever perform calls __process, the style list it passes is        *)
(* non-empty and holds only styles defined by the configuration; the engine *)
(* is constructed with that list and never refuses it as empty.             *)
C8_EngineStylesNonEmptyAndDefined ==
    /\ ProcessCalled =>
          /\ Len(styles) >= 1
          /\ \A i \in DOMAIN styles : styles[i] \in DefinedStyles
    /\ (engine # NoEngine) => (engine = CheckEngine(styles))
    /\ exception # "NoStyleSelectedError"

C8_Witness ==
    /\ pc = "loop"
    /\ arguments.style = << "s2", "s1" >>
    /\ engine = CheckEngine(<< Style("s2"), Style("s1") >>)

(* C5: after engine.check fails for a file (its extension has no pipeline), *)
(* the remaining candidates are still checked and the issues collected so   *)
(* far are still returned and printed: a run in which a check failed ends   *)
(* with an empty worklist and with every collected issue printed.           *)
C5_ContinuesAfterFailedCheck ==
    (pc \in { "raised", "exited" } /\ exception = "NoPipelineError") =>
        /\ candidates = << >>
        /\ printed = issues

(* C6: the issue sequence returned by __process and printed by perform is   *)
(* ordered by file path, whatever order the files were checked in.          *)
C6_IssuesOrderedByPath ==
    /\ ProcessReturned => OrderedByPath(issues)
    /\ OrderedByPath(printed)

(* C7: two runs of the same command over the same files, styles and         *)
(* pipelines print the same issue sequence, whatever order iterdir lists    *)
(* directory entries in.                                                    *)
C7_SameOutputTwice ==
    (run = 2 /\ pc = "exited") => (printed = firstPrinted)

(* C9: when __process returns, engine.check has been called exactly once    *)
(* for every file that was discovered (named directly, or found with a hot  *)
(* suffix while descending), however many candidates name it or lead to it. *)
C9_CheckedExactlyOnce ==
    ProcessReturned =>
        \A p \in Paths :
            (~is_dir(p) /\ (Direct(p) \/ TimesFound(p) > 0)) => (Count(checked, p) = 1)

(* C9 as amended: engine.check is called once per discovery, not once per   *)
(* distinct file.  At every point of __process, the calls made for a file   *)
(* plus its occurrences still waiting in the worklist equal the number of   *)
(* times it was named on the command line plus the number of times it was   *)
(* found with a hot suffix while descending; the worklist is empty on       *)
(* return.                                                                  *)
C9_CheckedOncePerDiscovery ==
    /\ InProcess =>
          \A p \in Paths :
              ~is_dir(p) =>
                  (Count(checked, p) + Count(candidates, p)
                     = Count(arguments.source, p) + TimesFound(p))
    /\ ProcessReturned => (candidates = << >>)

C9_Witness ==
    /\ pc = "exited"
    /\ arguments.source = << 1, 4 >>
    /\ Count(checked, 4) = 2
    /\ Count(checked, 2) = 1

=============================================================================
